---------------------------- MODULE Spec2Model ----------------------------
(***************************************************************************)
(* Model of src/robot_controller.py: the Simulator Client helpers and the  *)
(* control loop of run_autonomous_mission.                                 *)
(*                                                                         *)
(* Time is counted in tenths of a second (time.sleep(0.3) is 3 ticks).     *)
(*                                                                         *)
(* Angles are Python floats (IEEE-754 doubles).  A double x is written as  *)
(* the pair <<d, f>> that stands for the exact real d + f * 2^-46, with d  *)
(* an integer number of degrees and f a small integer: 2^-46 is the        *)
(* spacing of the doubles in [64, 128).  Every angle of the program is a   *)
(* sum or difference of such values, and Round gives the double that the   *)
(* machine keeps of it (round to nearest, ties to even).                   *)
(***************************************************************************)
EXTENDS Integers, Sequences, FiniteSets, TLC

(***************************************************************************)
(* Program constants (lines 11-13, 72)                                     *)
(***************************************************************************)
FORWARD_SPEED == 25
TURN_SPEED == 25
AVOIDANCE_BACKUP == -25
run_duration_seconds == 90

(***************************************************************************)
(* Bounds of the model                                                     *)
(***************************************************************************)
\* largest value the simulator's collision counter takes
MaxCount == 2
\* ticks a GET /collisions takes to answer or to fail (line 45 sets no timeout)
ReadLatency == 70

(***************************************************************************)
(* Doubles                                                                 *)
(***************************************************************************)
Deg(d) == <<d, 0>>

FLess(a, b) == a[1] < b[1] \/ (a[1] = b[1] /\ a[2] < b[2])

FLeq(a, b) == a = b \/ FLess(a, b)

FNeg(a) == <<0 - a[1], 0 - a[2]>>

FIsNeg(a) == FLess(a, Deg(0))

\* spacing, in units of 2^-46, of the doubles around a (a >= 0)
UlpOf(a) ==
    IF FLeq(Deg(512), a) THEN 8
    ELSE IF FLeq(Deg(256), a) THEN 4
    ELSE IF FLeq(Deg(128), a) THEN 2
    ELSE 1

\* the double nearest to the real a >= 0, ties to the even mantissa
RoundMag(a) ==
    LET k  == UlpOf(a)
        r  == a[2] % k
        lo == a[2] - r
    IN  IF r = 0 THEN a
        ELSE IF 2 * r < k THEN <<a[1], lo>>
        ELSE IF 2 * r > k THEN <<a[1], lo + k>>
        ELSE IF lo % (2 * k) = 0 THEN <<a[1], lo>>
        ELSE <<a[1], lo + k>>

\* (a function, and PyMod360Of below: TLC evaluates the argument once)
RoundOf[a \in Int \X Int] ==
    IF FIsNeg(a) THEN FNeg(RoundMag(FNeg(a))) ELSE RoundMag(a)

Round(a) == RoundOf[a]

\* x + y and x - y on doubles
FAdd(a, b) == Round(<<a[1] + b[1], a[2] + b[2]>>)

FSub(a, b) == Round(<<a[1] - b[1], a[2] - b[2]>>)

\* C fmod(a, 360) for a >= 0: exact
FmodMag(a) ==
    LET q == a[1] \div 360
        r == <<a[1] - 360 * q, a[2]>>
    IN  IF FIsNeg(r) THEN <<r[1] + 360, r[2]>> ELSE r

Fmod360(a) == IF FIsNeg(a) THEN FNeg(FmodMag(FNeg(a))) ELSE FmodMag(a)

\* Python's a % 360 on a float: fmod, then + 360 (rounded) when the
\* remainder is negative
PyMod360Of[a \in Int \X Int] ==
    LET m == Fmod360(a)
    IN  IF FIsNeg(m) THEN Round(<<m[1] + 360, m[2]>>) ELSE m

PyMod360(a) == PyMod360Of[a]

\* np.clip(x, lo, hi)
Clip(x, lo, hi) == IF FLess(x, lo) THEN lo ELSE IF FLess(hi, x) THEN hi ELSE x

IsDouble(a) == Round(a) = a


(***************************************************************************)
(* Simulator Client (lines 16-58)                                          *)
(***************************************************************************)
\* what a POST to the simulator does: it is answered, or requests raises
PostOutcomes == {"ok", "RequestException"}

\* what a GET /collisions does: a JSON object with the field count, a JSON
\* object without it, a body that is no JSON (json() raises ValueError), or
\* no answer at all (requests raises)
Responses == {"count", "no_count", "malformed", "network_error"}

\* the exception a call raises inside its try block
Raised(outcome) ==
    CASE outcome = "RequestException" -> "RequestException"
      [] outcome = "network_error"    -> "RequestException"
      [] outcome = "malformed"        -> "ValueError"
      [] OTHER                        -> "none"

\* a slip: "except requests.exceptions.RequestException" alone
Swallowed_requests_only(exc) == exc = "RequestException"

\* every helper ends in "except Exception": whatever is raised is caught
Swallowed(exc) == exc \in {"RequestException", "ValueError"}

\* the call lets an exception through to run_autonomous_mission
Propagates(outcome) == Raised(outcome) # "none" /\ ~Swallowed(Raised(outcome))

\* get_collision_count(): response.json().get('count', 0), or -1 on an exception
get_collision_count(resp, count) ==
    IF Raised(resp) # "none" THEN -1
    ELSE IF resp = "count" THEN count
    ELSE 0

(***************************************************************************)
(* Mission Controller (lines 61-113)                                       *)
(***************************************************************************)
GoalCorners == {"NE", "NW", "SE", "SW"}

\* a label that is no key of target_headings
BadCorner == "XX"

target_headings == ("NE" :> 45) @@ ("NW" :> 315) @@ ("SE" :> 135) @@ ("SW" :> 225)

\* values random.uniform(120, 180) returns: a + (b - a) * random() is 120.0
\* for random() = 0, 180.0 for random() = 1 - 2^-53 (the sum rounds up), and
\* 125 - 2^-46 in between
UniformSamples == {Deg(120), <<125, -1>>, Deg(180)}

\* a slip: the budget taken in minutes
LoopGuard_minutes(t, start) == t - start < run_duration_seconds * 60 * 10

\* line 76: time.time() - start_time < run_duration_seconds
LoopGuard(t, start) == t - start < run_duration_seconds * 10

\* slips: a rise of one is not enough; no rise is enough
CollisionDetected_by_two(current, last) == current > last + 1

CollisionDetected_or_equal(current, last) == current >= last

\* line 79
CollisionDetected(current, last) == current > last

\* a slip: the error not brought back around zero
HeadingError_unsigned(target, heading) == PyMod360(FSub(Deg(target), heading))

\* line 100
HeadingError(target, heading) ==
    FSub(PyMod360(FAdd(FSub(Deg(target), heading), Deg(180))), Deg(180))

\* a slip: the error sent as it is, not clamped
TurnCorrection_unclamped(err) == err

\* line 101
TurnCorrection(err) == Clip(err, Deg(0 - TURN_SPEED), Deg(TURN_SPEED))

\* a slip: the sum is not reduced mod 360
Turned_unwrapped(heading, turn) == FAdd(heading, turn)

\* lines 91 and 105: (current_heading + turn) % 360
Turned(heading, turn) == PyMod360(FAdd(heading, turn))

\* lines 100-105: the heading estimate after a seek step from heading
SeekStep(target, heading) ==
    Turned(heading, TurnCorrection(HeadingError(target, heading)))

VARIABLES
    pc,                       \* the line the program is at
    goal_corner,              \* its argument
    target_heading,
    current_heading,
    start_time,
    last_collision_count,
    current_collision_count,
    heading_error,            \* of the seek step of this cycle
    final_collisions,         \* the value returned
    now,                      \* time.time()
    sim_count,                \* the simulator's collision counter
    outcome,                  \* what the last call to the simulator did
    requests,                 \* the paths requested so far
    cmds,                     \* the moves sent since the last refresh read
    last_good_read,           \* the last count read that was no sentinel
    level,                    \* the run_level function running: 1, 2, 3 (0: none)
    speed_index,              \* run_level_3: position in obstacle_speeds
    runs,                     \* what the missions of this round returned
    total_collisions,
    averages,                 \* the averages reported, in hundredths
    baseline_count,           \* the value read at line 74
    escapes_started,          \* the escape sequences started in this mission
    in_cycle_rise             \* a rise of the counter between the two reads of
                              \* a cycle: "pending" until the next delta check,
                              \* "missed" if that check started no escape

\* the variables of run_level_1, run_level_2, run_level_3
level_vars == <<level, speed_index, runs, total_collisions, averages>>

\* what a mission has done so far, recorded under ReliableSpec
history_vars == <<baseline_count, escapes_started, in_cycle_rise>>

vars == <<pc, goal_corner, target_heading, current_heading, start_time,
          last_collision_count, current_collision_count, heading_error,
          final_collisions, now, sim_count, outcome, requests, cmds,
          last_good_read, level_vars, history_vars>>

NoHistory ==
    /\ baseline_count = 0
    /\ escapes_started = 0
    /\ in_cycle_rise = "none"

\* no run_level function is running
NoLevel ==
    /\ level = 0
    /\ speed_index = 0
    /\ runs = <<>>
    /\ total_collisions = 0
    /\ averages = <<>>

\* no instant a mission reads the clock at lies beyond this one
ClockCap == 10 * (run_duration_seconds + 3) + 3 * ReadLatency

Tick(d) == IF now + d > ClockCap THEN ClockCap ELSE now + d

Move(kind, turn, distance) == [kind |-> kind, turn |-> turn, distance |-> distance]

Init ==
    /\ pc = "obstacles"
    /\ goal_corner \in GoalCorners \cup {BadCorner}
    /\ target_heading = 0
    /\ current_heading = Deg(0)
    /\ start_time = 0
    /\ last_collision_count = 0
    /\ current_collision_count = 0
    /\ heading_error = Deg(0)
    /\ final_collisions = 0
    /\ now = 0
    /\ sim_count \in 0..MaxCount
    /\ outcome = "ok"
    /\ requests = {}
    /\ cmds = <<>>
    /\ last_good_read = -1
    /\ NoLevel
    /\ NoHistory

\* set_obstacle_motion(), lines 51-58, called by run_level_1 (line 120) before
\* its missions
SetObstacleMotion ==
    /\ pc = "obstacles"
    /\ \E o \in PostOutcomes :
        /\ outcome' = o
        /\ pc' = IF Propagates(o) THEN "aborted" ELSE "reset"
    /\ requests' = requests \cup {"/obstacles/motion"}
    /\ UNCHANGED <<level_vars, history_vars, goal_corner, target_heading, current_heading, start_time,
                   last_collision_count, current_collision_count, heading_error,
                   final_collisions, now, sim_count, cmds, last_good_read>>

\* line 63
ResetSimulation ==
    /\ pc = "reset"
    /\ \E o \in PostOutcomes :
        /\ outcome' = o
        /\ sim_count' = IF o = "ok" THEN 0 ELSE sim_count
        /\ pc' = IF Propagates(o) THEN "aborted" ELSE "set_goal"
    /\ requests' = requests \cup {"/reset"}
    /\ UNCHANGED <<level_vars, history_vars, goal_corner, target_heading, current_heading, start_time,
                   last_collision_count, current_collision_count, heading_error,
                   final_collisions, now, cmds, last_good_read>>

\* line 64
SetGoal ==
    /\ pc = "set_goal"
    /\ \E o \in PostOutcomes :
        /\ outcome' = o
        /\ pc' = IF Propagates(o) THEN "aborted" ELSE "lookup"
    /\ requests' = requests \cup {"/goal"}
    /\ UNCHANGED <<level_vars, history_vars, goal_corner, target_heading, current_heading, start_time,
                   last_collision_count, current_collision_count, heading_error,
                   final_collisions, now, sim_count, cmds, last_good_read>>

\* lines 65-73: sleep one second, look the target heading up (KeyError for a
\* label that is no key), start the clock
Lookup ==
    /\ pc = "lookup"
    /\ now' = Tick(10)
    /\ IF goal_corner \in DOMAIN target_headings
       THEN /\ target_heading' = target_headings[goal_corner]
            /\ current_heading' = Deg(0)
            /\ start_time' = now'
            /\ pc' = "baseline"
       ELSE /\ pc' = "aborted"
            /\ UNCHANGED <<level_vars, history_vars, target_heading, current_heading, start_time>>
    /\ UNCHANGED <<level_vars, history_vars, goal_corner, last_collision_count, current_collision_count,
                   heading_error, final_collisions, sim_count, outcome, requests,
                   cmds, last_good_read>>

\* one call of get_collision_count(): the value it returns is v
ReadsCount(resp, v) ==
    /\ v = get_collision_count(resp, sim_count)
    /\ outcome' = resp
    /\ requests' = requests \cup {"/collisions"}
    /\ last_good_read' = IF v # -1 THEN v ELSE last_good_read
    /\ now' = Tick(ReadLatency)

\* line 74
BaselineCount ==
    /\ pc = "baseline"
    /\ \E resp \in Responses : \E v \in -1..MaxCount :
        /\ ReadsCount(resp, v)
        /\ last_collision_count' = v
        /\ pc' = IF Propagates(resp) THEN "aborted" ELSE "guard"
    /\ UNCHANGED <<level_vars, goal_corner, target_heading, current_heading, start_time,
                   current_collision_count, heading_error, final_collisions,
                   sim_count, cmds>>

Baseline == BaselineCount /\ UNCHANGED history_vars

\* line 76
Guard ==
    /\ pc = "guard"
    /\ pc' = IF LoopGuard(now, start_time) THEN "poll" ELSE "stop"
    /\ UNCHANGED <<level_vars, history_vars, goal_corner, target_heading, current_heading, start_time,
                   last_collision_count, current_collision_count, heading_error,
                   final_collisions, now, sim_count, outcome, requests, cmds,
                   last_good_read>>

\* lines 77-79
PollCount ==
    /\ pc = "poll"
    /\ \E resp \in Responses : \E v \in -1..MaxCount :
        /\ ReadsCount(resp, v)
        /\ current_collision_count' = v
        /\ pc' = IF Propagates(resp) THEN "aborted"
                 ELSE IF CollisionDetected(v, last_collision_count) THEN "backup"
                 ELSE "seek"
    /\ UNCHANGED <<level_vars, goal_corner, target_heading, current_heading, start_time,
                   last_collision_count, heading_error, final_collisions,
                   sim_count, cmds>>

Poll == PollCount /\ UNCHANGED history_vars

\* a slip: a move whose delivery failed is sent again
Moves_retrying(kind, turn, distance, ticks, next) ==
    /\ \E o \in PostOutcomes :
        /\ outcome' = o
        /\ pc' = IF o = "RequestException" THEN pc ELSE next
    /\ requests' = requests \cup {"/move_rel"}
    /\ cmds' = Append(cmds, Move(kind, turn, distance))
    /\ now' = Tick(ticks)

\* move_robot_relative(turn, distance), lines 32-40, then time.sleep(ticks)
Moves(kind, turn, distance, ticks, next) ==
    /\ \E o \in PostOutcomes :
        /\ outcome' = o
        /\ pc' = IF Propagates(o) THEN "aborted" ELSE next
    /\ requests' = requests \cup {"/move_rel"}
    /\ cmds' = Append(cmds, Move(kind, turn, distance))
    /\ now' = Tick(ticks)

\* lines 84-85
Backup ==
    /\ pc = "backup"
    /\ Moves("backup", Deg(0), AVOIDANCE_BACKUP, 4, "turn")
    /\ UNCHANGED <<level_vars, history_vars, goal_corner, target_heading, current_heading, start_time,
                   last_collision_count, current_collision_count, heading_error,
                   final_collisions, sim_count, last_good_read>>

\* a slip: the estimate follows the turn only when the move was delivered
Turn_if_delivered ==
    /\ pc = "turn"
    /\ \E random_turn \in UniformSamples :
        /\ Moves("turn", random_turn, 0, 4, "forward")
        /\ current_heading' = IF outcome' = "ok"
                            THEN Turned(current_heading, random_turn)
                            ELSE current_heading
    /\ UNCHANGED <<level_vars, history_vars, goal_corner, target_heading, start_time,
                   last_collision_count, current_collision_count, heading_error,
                   final_collisions, sim_count, last_good_read>>

\* lines 88-92
Turn ==
    /\ pc = "turn"
    /\ \E random_turn \in UniformSamples :
        /\ Moves("turn", random_turn, 0, 4, "forward")
        /\ current_heading' = Turned(current_heading, random_turn)
    /\ UNCHANGED <<level_vars, history_vars, goal_corner, target_heading, start_time,
                   last_collision_count, current_collision_count, heading_error,
                   final_collisions, sim_count, last_good_read>>

\* a slip: the third step backs up again
Forward_reversing ==
    /\ pc = "forward"
    /\ Moves("forward", Deg(0), AVOIDANCE_BACKUP, 4, "refresh")
    /\ UNCHANGED <<level_vars, history_vars, goal_corner, target_heading, current_heading, start_time,
                   last_collision_count, current_collision_count, heading_error,
                   final_collisions, sim_count, last_good_read>>

\* lines 95-96
Forward ==
    /\ pc = "forward"
    /\ Moves("forward", Deg(0), FORWARD_SPEED, 4, "refresh")
    /\ UNCHANGED <<level_vars, history_vars, goal_corner, target_heading, current_heading, start_time,
                   last_collision_count, current_collision_count, heading_error,
                   final_collisions, sim_count, last_good_read>>

\* lines 100-105
Seek ==
    /\ pc = "seek"
    /\ heading_error' = HeadingError(target_heading, current_heading)
    /\ Moves("seek", TurnCorrection(heading_error'), FORWARD_SPEED, 0, "refresh")
    /\ current_heading' = Turned(current_heading, TurnCorrection(heading_error'))
    /\ UNCHANGED <<level_vars, history_vars, goal_corner, target_heading, start_time,
                   last_collision_count, current_collision_count,
                   final_collisions, sim_count, last_good_read>>

\* a slip: the refresh read is made but its value is not kept
Refresh_keeping_baseline ==
    /\ pc = "refresh"
    /\ \E resp \in Responses : \E v \in -1..MaxCount :
        /\ ReadsCount(resp, v)
        /\ last_collision_count' = last_collision_count
        /\ pc' = IF Propagates(resp) THEN "aborted" ELSE "sleep"
    /\ cmds' = <<>>
    /\ heading_error' = Deg(0)
    /\ UNCHANGED <<level_vars, history_vars, goal_corner, target_heading, current_heading, start_time,
                   current_collision_count, final_collisions, sim_count>>

\* lines 107-108; the cycle's moves and its heading error are history from here
Refresh ==
    /\ pc = "refresh"
    /\ \E resp \in Responses : \E v \in -1..MaxCount :
        /\ ReadsCount(resp, v)
        /\ last_collision_count' = v
        /\ pc' = IF Propagates(resp) THEN "aborted" ELSE "sleep"
    /\ cmds' = <<>>
    /\ heading_error' = Deg(0)
    /\ UNCHANGED <<level_vars, history_vars, goal_corner, target_heading, current_heading, start_time,
                   current_collision_count, final_collisions, sim_count>>

\* line 108
PollSleep ==
    /\ pc = "sleep"
    /\ now' = Tick(3)
    /\ pc' = "guard"
    /\ UNCHANGED <<level_vars, history_vars, goal_corner, target_heading, current_heading, start_time,
                   last_collision_count, current_collision_count, heading_error,
                   final_collisions, sim_count, outcome, requests, cmds,
                   last_good_read>>

\* line 110
Stop ==
    /\ pc = "stop"
    /\ Moves("stop", Deg(0), 0, 0, "final")
    /\ UNCHANGED <<level_vars, history_vars, goal_corner, target_heading, current_heading, start_time,
                   last_collision_count, current_collision_count, heading_error,
                   final_collisions, sim_count, last_good_read>>

\* a slip: the count of the last refresh read is returned
Final_returning_last ==
    /\ pc = "final"
    /\ \E resp \in Responses : \E v \in -1..MaxCount :
        /\ ReadsCount(resp, v)
        /\ final_collisions' = last_collision_count
        /\ pc' = IF Propagates(resp) THEN "aborted" ELSE "done"
    /\ UNCHANGED <<level_vars, history_vars, goal_corner, target_heading,
                   current_heading, start_time, last_collision_count,
                   current_collision_count, heading_error, sim_count, cmds>>

\* lines 111-113
Final ==
    /\ pc = "final"
    /\ \E resp \in Responses : \E v \in -1..MaxCount :
        /\ ReadsCount(resp, v)
        /\ final_collisions' = v
        /\ pc' = IF Propagates(resp) THEN "aborted" ELSE "done"
    /\ UNCHANGED <<level_vars, history_vars, goal_corner, target_heading, current_heading, start_time,
                   last_collision_count, current_collision_count, heading_error,
                   sim_count, cmds>>

\* the simulator counts a collision of the robot with an obstacle
CollisionCounted ==
    /\ pc \in {"baseline", "guard", "poll", "backup", "turn", "forward", "seek",
               "refresh", "sleep", "stop", "final"}
    /\ sim_count < MaxCount
    /\ sim_count' = sim_count + 1
    /\ UNCHANGED <<level_vars, pc, goal_corner, target_heading, current_heading, start_time,
                   last_collision_count, current_collision_count, heading_error,
                   final_collisions, now, outcome, requests, cmds, last_good_read>>

Collision == CollisionCounted /\ UNCHANGED history_vars

Mission ==
    \/ SetObstacleMotion
    \/ ResetSimulation
    \/ SetGoal
    \/ Lookup
    \/ Baseline
    \/ Guard
    \/ Poll
    \/ Backup
    \/ Turn
    \/ Forward
    \/ Seek
    \/ Refresh
    \/ PollSleep
    \/ Stop
    \/ Final

Next == Mission \/ Collision

Spec == Init /\ [][Next]_vars

\* the one thread of the program keeps running
FairSpec == Spec /\ WF_vars(Mission)

(***************************************************************************)
(* The missions in which no collision-count read fails, with a record of   *)
(* what the mission has done: the value of the first read, the escape      *)
(* sequences started, the rises of the counter between the two reads of a  *)
(* cycle                                                                   *)
(***************************************************************************)
\* every GET /collisions is answered with a count
ReadsSucceed == outcome' \notin {"no_count", "malformed", "network_error"}

BaselineRecorded ==
    /\ BaselineCount
    /\ ReadsSucceed
    /\ baseline_count' = last_collision_count'
    /\ UNCHANGED <<escapes_started, in_cycle_rise>>

PollRecorded ==
    /\ PollCount
    /\ ReadsSucceed
    /\ escapes_started' = IF pc' = "backup" THEN escapes_started + 1
                          ELSE escapes_started
    /\ in_cycle_rise' = IF pc' = "backup" THEN "none"
                        ELSE IF in_cycle_rise = "pending" THEN "missed"
                        ELSE in_cycle_rise
    /\ UNCHANGED baseline_count

RefreshRecorded == Refresh /\ ReadsSucceed

FinalRecorded == Final /\ ReadsSucceed

CollisionRecorded ==
    /\ CollisionCounted
    /\ in_cycle_rise' = IF pc \in {"backup", "turn", "forward", "seek", "refresh"}
                        THEN "pending" ELSE in_cycle_rise
    /\ UNCHANGED <<baseline_count, escapes_started>>

ReliableNext ==
    \/ SetObstacleMotion
    \/ ResetSimulation
    \/ SetGoal
    \/ Lookup
    \/ BaselineRecorded
    \/ Guard
    \/ PollRecorded
    \/ Backup
    \/ Turn
    \/ Forward
    \/ Seek
    \/ RefreshRecorded
    \/ PollSleep
    \/ Stop
    \/ FinalRecorded
    \/ CollisionRecorded

ReliableSpec == Init /\ [][ReliableNext]_vars

(***************************************************************************)
(* The seek step on its own: every target heading, every heading estimate  *)
(* within MaxFrac * 2^-46 of a whole number of degrees                     *)
(***************************************************************************)
MaxFrac == 4

HeadingSamples ==
    {h \in (0..359) \X ((0 - MaxFrac)..MaxFrac) : IsDouble(h) /\ ~FIsNeg(h)}

SeekInit ==
    /\ pc = "seek"
    /\ goal_corner \in GoalCorners
    /\ target_heading = target_headings[goal_corner]
    /\ current_heading \in HeadingSamples
    /\ start_time = 0
    /\ last_collision_count = 0
    /\ current_collision_count = 0
    /\ heading_error = Deg(0)
    /\ final_collisions = 0
    /\ now = 0
    /\ sim_count = 0
    /\ outcome = "count"
    /\ requests = {"/collisions"}
    /\ cmds = <<>>
    /\ last_good_read = 0
    /\ NoLevel
    /\ NoHistory

SeekNext == Seek

SeekSpec == SeekInit /\ [][SeekNext]_vars

(***************************************************************************)
(* run_level_1, run_level_2, run_level_3 (lines 116-167): rounds of four   *)
(* missions, one for each goal corner.  A mission is a call that returns   *)
(* -1 or a count.                                                          *)
(***************************************************************************)
goal_corners == <<"NE", "NW", "SE", "SW">>

\* line 144, in hundredths
obstacle_speeds == <<2, 4, 6, 8, 10>>

\* the rounds of a level: one for each obstacle speed in run_level_3
Rounds(l) == IF l = 3 THEN Len(obstacle_speeds) ELSE 1

\* lines 124-125, 137-138, 153-154
Added(total, collisions_for_run) ==
    IF collisions_for_run # -1 THEN total + collisions_for_run ELSE total

\* lines 126, 139, 155: total / len(goal_corners), in hundredths
Average(total) == (total * 100) \div Len(goal_corners)

LevelInit ==
    /\ pc = "level_obstacles"
    /\ level \in 1..3
    /\ speed_index = 1
    /\ runs = <<>>
    /\ total_collisions = 0
    /\ averages = <<>>
    /\ goal_corner = goal_corners[1]
    /\ target_heading = 0
    /\ current_heading = Deg(0)
    /\ start_time = 0
    /\ last_collision_count = 0
    /\ current_collision_count = 0
    /\ heading_error = Deg(0)
    /\ final_collisions = 0
    /\ now = 0
    /\ sim_count = 0
    /\ outcome = "ok"
    /\ requests = {}
    /\ cmds = <<>>
    /\ last_good_read = -1
    /\ NoHistory

\* lines 119-120, 132-133, 149-150: set_obstacle_motion() and a total of 0
LevelObstacles ==
    /\ pc = "level_obstacles"
    /\ \E o \in PostOutcomes :
        /\ outcome' = o
        /\ pc' = IF Propagates(o) THEN "aborted" ELSE "level_mission"
    /\ requests' = requests \cup {"/obstacles/motion"}
    /\ total_collisions' = 0
    /\ runs' = <<>>
    /\ UNCHANGED <<history_vars, goal_corner, target_heading, current_heading, start_time,
                   last_collision_count, current_collision_count, heading_error,
                   final_collisions, now, sim_count, cmds, last_good_read,
                   level, speed_index, averages>>

\* lines 121-125, 134-138, 151-154: the mission to the next corner returns
\* collisions_for_run
LevelMission ==
    /\ pc = "level_mission"
    /\ goal_corner' = goal_corners[Len(runs) + 1]
    /\ \E collisions_for_run \in -1..MaxCount :
        /\ final_collisions' = collisions_for_run
        /\ runs' = Append(runs, collisions_for_run)
        /\ total_collisions' = Added(total_collisions, collisions_for_run)
    /\ pc' = IF Len(runs) + 1 = Len(goal_corners) THEN "level_average"
             ELSE "level_mission"
    /\ UNCHANGED <<history_vars, target_heading, current_heading, start_time,
                   last_collision_count, current_collision_count, heading_error,
                   now, sim_count, outcome, requests, cmds, last_good_read,
                   level, speed_index, averages>>

\* lines 126-127, 139-140, 155-157
LevelAverage ==
    /\ pc = "level_average"
    /\ averages' = Append(averages, Average(total_collisions))
    /\ IF speed_index < Rounds(level)
       THEN /\ speed_index' = speed_index + 1
            /\ pc' = "level_obstacles"
       ELSE /\ speed_index' = speed_index
            /\ pc' = "level_done"
    /\ UNCHANGED <<history_vars, goal_corner, target_heading, current_heading, start_time,
                   last_collision_count, current_collision_count, heading_error,
                   final_collisions, now, sim_count, outcome, requests, cmds,
                   last_good_read, level, runs, total_collisions>>

LevelNext == LevelObstacles \/ LevelMission \/ LevelAverage

LevelSpec == LevelInit /\ [][LevelNext]_vars

(***************************************************************************)
(* Properties                                                              *)
(***************************************************************************)
\* the lines of one poll cycle after its first read
CyclePcs == {"backup", "turn", "forward", "seek", "refresh"}

Kinds(s) == [i \in 1..Len(s) |-> s[i].kind]

Elapsed == now - start_time

FAbs(a) == IF FIsNeg(a) THEN FNeg(a) ELSE a

\* C1: the escape sequence starts in a cycle only if the simulator's counter
\* is strictly greater than the last count that was read successfully, however
\* many reads failed in between.
C1_EscapeOnlyOnRise ==
    [][(pc = "poll" /\ pc' = "backup" /\ last_good_read # -1)
          => sim_count > last_good_read]_vars

\* C2: a cycle whose first read is a valid count strictly greater than the
\* last-known count runs the escape sequence and sends no seek command.
C2_RiseRunsEscape ==
    (pc \in CyclePcs /\ current_collision_count >= 0
                     /\ current_collision_count > last_collision_count)
    => /\ pc # "seek"
       /\ \A i \in 1..Len(cmds) : cmds[i].kind \in {"backup", "turn", "forward"}
       /\ pc = "refresh" => Kinds(cmds) = <<"backup", "turn", "forward">>

C2_Witness ==
    /\ pc = "refresh"
    /\ current_collision_count = 1
    /\ last_collision_count = 0
    /\ Len(cmds) = 3

\* s is the start of an escape sequence: (0, -25), then (r, 0) with r from 120
\* to 180 (below 180 when strict), then (0, 25)
EscapeMoves(s, strict) ==
    /\ Len(s) <= 3
    /\ Len(s) >= 1 => s[1] = Move("backup", Deg(0), -25)
    /\ Len(s) >= 2 => /\ s[2].kind = "turn"
                      /\ s[2].distance = 0
                      /\ FLeq(Deg(120), s[2].turn)
                      /\ IF strict THEN FLess(s[2].turn, Deg(180))
                                   ELSE FLeq(s[2].turn, Deg(180))
    /\ Len(s) >= 3 => s[3] = Move("forward", Deg(0), 25)

InEscape == pc \in {"turn", "forward"} \/ (cmds # <<>> /\ cmds[1].kind = "backup")

EscapeProgress ==
    /\ pc = "turn" => Len(cmds) = 1
    /\ pc = "forward" => Len(cmds) = 2
    /\ pc = "refresh" => Len(cmds) = 3

\* C3 as claimed: an escape sequence sends (0, -25), then (r, 0) with
\* 120 <= r < 180, then (0, 25), and nothing else.
C3_EscapeMovesBelow180 == InEscape => (EscapeMoves(cmds, TRUE) /\ EscapeProgress)

\* C3 amended: an escape sequence sends (0, -25), then (r, 0) with
\* 120 <= r <= 180, then (0, 25), and nothing else: no seek and no stop move
\* between the first and the third.
C3_EscapeMoves == InEscape => (EscapeMoves(cmds, FALSE) /\ EscapeProgress)

C3_Witness ==
    /\ pc = "refresh"
    /\ Len(cmds) = 3
    /\ cmds[2].turn = Deg(180)

C5_SentinelReadSeeks ==
    /\ []((pc \in CyclePcs /\ current_collision_count = -1)
            => /\ pc \in {"seek", "refresh"}
               /\ \A i \in 1..Len(cmds) : cmds[i].kind = "seek"
               /\ pc = "refresh" => Len(cmds) = 1)
    /\ [][(current_collision_count = -1 /\ pc # pc')
             => /\ pc = "seek" => pc' = "refresh"
                /\ pc = "refresh" => pc' = "sleep"
                /\ pc = "sleep" => pc' = "guard"]_vars

C5_Witness ==
    /\ pc = "refresh"
    /\ current_collision_count = -1
    /\ last_collision_count = 1
    /\ Kinds(cmds) = <<"seek">>

\* the turn sent is the error clamped to [-TURN_SPEED, TURN_SPEED]: same sign,
\* no larger
ClampedTurn(err, turn) ==
    /\ FIsNeg(turn) <=> FIsNeg(err)
    /\ turn = Deg(0) <=> err = Deg(0)
    /\ FLeq(FAbs(turn), FAbs(err))
    /\ FLeq(FAbs(turn), Deg(TURN_SPEED))

AfterSeek == pc = "refresh" /\ Kinds(cmds) = <<"seek">>

\* C6 as claimed: the heading error of a seek step is greater than -180 and
\* at most 180, and the turn is that error clamped.
C6_ErrorAboveMinus180 ==
    AfterSeek => /\ FLess(Deg(-180), heading_error)
                 /\ FLeq(heading_error, Deg(180))
                 /\ ClampedTurn(heading_error, cmds[1].turn)

\* C6 amended: the heading error of a seek step is at least -180 and at most
\* 180, and the turn is that error clamped: same sign, magnitude no larger.
C6_ErrorRange ==
    AfterSeek => /\ FLeq(Deg(-180), heading_error)
                 /\ FLeq(heading_error, Deg(180))
                 /\ ClampedTurn(heading_error, cmds[1].turn)

C6_Witness ==
    /\ AfterSeek
    /\ heading_error = Deg(-180)
    /\ cmds[1].turn = Deg(-25)

\* C7: the heading estimate is at least 0 and below 360 in every state of a
\* mission, and 0 when the mission starts.
C7_HeadingInRange ==
    /\ FLeq(Deg(0), current_heading)
    /\ FLess(current_heading, Deg(360))
    /\ pc = "baseline" => current_heading = Deg(0)

\* what C8 says a read returns
CountOrSentinel(resp, v) == IF resp = "count" THEN v = sim_count ELSE v = -1

\* C8: get_collision_count returns the count of a response that holds the
\* field count, and -1 for a network error, a malformed body and a response
\* without the field.
C8_CountOrSentinel ==
    [][/\ (pc = "baseline" /\ pc' = "guard")
            => CountOrSentinel(outcome', last_collision_count')
       /\ (pc = "poll" /\ pc' \in {"backup", "seek"})
            => CountOrSentinel(outcome', current_collision_count')
       /\ (pc = "refresh" /\ pc' = "sleep")
            => CountOrSentinel(outcome', last_collision_count')
       /\ (pc = "final" /\ pc' = "done")
            => CountOrSentinel(outcome', final_collisions')]_vars

C10_BadCornerNoRequest ==
    goal_corner \notin GoalCorners
    => requests \cap {"/reset", "/goal", "/collisions", "/move_rel"} = {}

\* a is b plus a whole number of turns, up to the rounding of the two float
\* operations between them (at most 4 * 2^-46 below 512)
CongruentMod360(a, b) ==
    \E k \in -1..1 : a[1] - b[1] = 360 * k /\ (a[2] - b[2]) \in -4..4

\* turn is err clamped to [-25, 25]
ClampedTo25(err, turn) ==
    IF FLess(Deg(25), err) THEN turn = Deg(25)
    ELSE IF FLess(err, Deg(-25)) THEN turn = Deg(-25)
    ELSE turn = err

FixedLookup(corner) ==
    CASE corner = "NE" -> 45
      [] corner = "NW" -> 315
      [] corner = "SE" -> 135
      [] corner = "SW" -> 225

\* C11: a seek step sends one move whose turn is the heading error (target
\* minus estimate, brought into [-180, 180]) clamped to [-25, 25] and whose
\* distance is 25, and adds that turn to the heading estimate mod 360; the
\* target is 45, 315, 135, 225 for NE, NW, SE, SW; for NE and heading 0 the
\* move is (25, 25).
C11_SeekCommand ==
    [][(pc = "seek" /\ pc' # "seek") =>
         /\ pc' = "refresh"
         /\ target_heading = FixedLookup(goal_corner)
         /\ cmds = <<>>
         /\ Len(cmds') = 1
         /\ cmds'[1].distance = 25
         /\ CongruentMod360(heading_error',
                            <<target_heading - current_heading[1],
                              0 - current_heading[2]>>)
         /\ FLeq(Deg(-180), heading_error') /\ FLeq(heading_error', Deg(180))
         /\ ClampedTo25(heading_error', cmds'[1].turn)
         /\ CongruentMod360(current_heading',
                            <<current_heading[1] + cmds'[1].turn[1],
                              current_heading[2] + cmds'[1].turn[2]>>)
         /\ (goal_corner = "NE" /\ current_heading = Deg(0))
               => /\ cmds'[1].turn = Deg(25)
                  /\ current_heading' = Deg(25)]_vars

C11_Witness ==
    /\ pc = "refresh"
    /\ goal_corner = "NE"
    /\ heading_error = Deg(45)
    /\ cmds = <<Move("seek", Deg(25), 25)>>
    /\ current_heading = Deg(25)

\* C12: a mission in which at least one collision-count read succeeded
\* returns a count, not the sentinel -1.
C12_SentinelOnlyIfNoReadSucceeded ==
    (pc = "done" /\ last_good_read # -1) => final_collisions >= 0

RECURSIVE SumOf(_)
SumOf(s) == IF s = <<>> THEN 0 ELSE Head(s) + SumOf(Tail(s))

IsCount(v) == v # -1

\* the results of a round had every mission that returned -1 returned 0
ZeroForSentinel(s) == [i \in 1..Len(s) |-> IF s[i] = -1 THEN 0 ELSE s[i]]

\* the average of the round has been reported
RoundReported ==
    /\ pc \in {"level_obstacles", "level_done"}
    /\ Len(runs) = Len(goal_corners)

\* C13: a mission result of -1 is never added to the collision total, and the
\* average reported for a round with such a mission differs from the average
\* that would be reported had that mission returned 0.
C13_SentinelNotCountedAsZero ==
    /\ total_collisions = SumOf(SelectSeq(runs, IsCount))
    /\ (RoundReported /\ \E i \in 1..Len(runs) : runs[i] = -1)
          => averages[Len(averages)]
                # (SumOf(ZeroForSentinel(runs)) * 100) \div Len(runs)

\* C14: a rise of the counter between the first read and the refresh read of
\* a cycle is not missed: when the loop has run a further cycle, a later delta
\* check has started the escape sequence.
C14_RiseBetweenReadsDetected ==
    pc \in {"stop", "final", "done"} => in_cycle_rise # "missed"

\* C15: the loop is left from its guard only; then one stop move (0, 0) is
\* sent, then one collision-count read is made and its value is returned.  The
\* stop move is the last move of the mission and no move (0, 0) is sent before
\* the loop is left.
C15_StopThenReadAndReturn ==
    /\ [](/\ \A i \in 1..Len(cmds) :
               (cmds[i].turn = Deg(0) /\ cmds[i].distance = 0)
                  => (pc \in {"final", "done"} /\ Len(cmds) = 1)
          /\ pc \in {"final", "done"} => cmds = <<Move("stop", Deg(0), 0)>>
          /\ pc = "stop" => cmds = <<>>)
    /\ [][pc # pc' =>
            /\ pc' = "stop" => pc = "guard"
            /\ pc = "stop" => (pc' = "final" /\ Len(cmds') = 1)
            /\ pc = "final" => /\ pc' = "done"
                               /\ cmds' = cmds
                               /\ final_collisions'
                                     = get_collision_count(outcome', sim_count)
            /\ pc # "done"]_vars
    /\ [][pc = "done" => (cmds' = cmds /\ final_collisions' = final_collisions
                                       /\ requests' = requests)]_vars

C15_Witness ==
    /\ pc = "done"
    /\ cmds = <<Move("stop", Deg(0), 0)>>
    /\ final_collisions = 2
    /\ last_collision_count = 1

\* the step sends one move, delivered or not, and goes on
SendsOneMove ==
    /\ outcome' \in PostOutcomes
    /\ "/move_rel" \in requests'
    /\ Len(cmds') = Len(cmds) + 1

\* the step makes one collision-count read and sends no move
MakesOneRead ==
    /\ outcome' \in Responses
    /\ "/collisions" \in requests'
    /\ now' = now + ReadLatency
    /\ cmds' \in {cmds, <<>>}

\* the step calls nothing
CallsNothing == outcome' = outcome /\ requests' = requests /\ cmds' = cmds

\* C16: a poll cycle makes two collision-count reads, one before the mode
\* decision and one after the moves, and sends either the one seek move or the
\* three escape moves, never both kinds; a move is sent once and the cycle
\* goes on whether or not its delivery failed.
C16_TwoReadsOneOrThreeMoves ==
    /\ [](/\ pc = "refresh" => Kinds(cmds) \in {<<"seek">>,
                                                <<"backup", "turn", "forward">>}
          /\ pc \in {"sleep", "guard", "poll"} => cmds = <<>>)
    /\ [][pc # pc' =>
            /\ pc = "guard" => (pc' \in {"poll", "stop"} /\ CallsNothing)
            /\ pc = "poll" => (pc' \in {"seek", "backup"} /\ MakesOneRead
                               /\ current_collision_count'
                                     = get_collision_count(outcome', sim_count))
            /\ pc = "seek" => (pc' = "refresh" /\ SendsOneMove)
            /\ pc = "backup" => (pc' = "turn" /\ SendsOneMove)
            /\ pc = "turn" => (pc' = "forward" /\ SendsOneMove)
            /\ pc = "forward" => (pc' = "refresh" /\ SendsOneMove)
            /\ pc = "refresh" => (pc' = "sleep" /\ MakesOneRead
                                  /\ last_collision_count'
                                        = get_collision_count(outcome', sim_count))
            /\ pc = "sleep" => (pc' = "guard" /\ CallsNothing)]_vars
    /\ [][pc = pc' => CallsNothing]_vars

C16_Witness ==
    /\ pc = "refresh"
    /\ Len(cmds) = 3
    /\ outcome = "RequestException"

\* the real h + t
Plus(h, t) == <<h[1] + t[1], h[2] + t[2]>>

\* C17: the heading estimate changes in the escape turn step and in the seek
\* step only, each time by the turn sent in that move (mod 360), delivered or
\* not; the other escape steps, the stop move, the reads and the simulator's
\* answers leave it as it is.
C17_HeadingChangedByTurnsOnly ==
    [][/\ current_heading' # current_heading => pc \in {"turn", "seek"}
       /\ (pc \in {"turn", "seek"} /\ pc' # pc)
             => /\ Len(cmds') = Len(cmds) + 1
                /\ CongruentMod360(current_heading',
                                   Plus(current_heading, cmds'[Len(cmds')].turn))
       /\ (pc \in {"backup", "forward", "stop", "baseline", "poll", "refresh",
                   "final", "guard", "sleep"} \/ pc' = pc)
             => current_heading' = current_heading]_vars

C17_Witness ==
    /\ pc = "forward"
    /\ outcome = "RequestException"
    /\ cmds[2].turn = Deg(180)
    /\ current_heading = Deg(205)

\* the heading estimate after n consecutive seek steps
RECURSIVE AfterSeeks(_, _, _)
AfterSeeks(target, heading, n) ==
    IF n = 0 THEN heading
    ELSE AfterSeeks(target, SeekStep(target, heading), n - 1)

\* the target is reached and kept: one more seek step sends a turn of 0 and
\* leaves the estimate where it is, and so does every further one
Settled(target, h) ==
    /\ TurnCorrection(HeadingError(target, h)) = Deg(0)
    /\ SeekStep(target, h) = h

\* C18 as claimed: from any heading estimate in [0, 360) and any target, the
\* estimate equals the target after 8 consecutive seek steps, and every
\* further seek step sends a turn of 0 and leaves it there.
C18_SeekReachesTarget ==
    pc = "seek" =>
       LET h == AfterSeeks(target_heading, current_heading, 8)
       IN  h = Deg(target_heading) /\ Settled(target_heading, h)

\* h is within 2^-46 of the whole number of degrees d
Within2Pow46(h, d) == h[1] = d /\ h[2] \in -1..1

\* C18 amended: after 8 consecutive seek steps the estimate is within 2^-46
\* degree of the target, and every further seek step sends a turn of 0 and
\* leaves the estimate unchanged.
C18_SeekConverges ==
    /\ [](pc = "seek" =>
            LET h == AfterSeeks(target_heading, current_heading, 8)
            IN  Within2Pow46(h, target_heading) /\ Settled(target_heading, h))
    /\ [][(pc = "seek" /\ pc' = "refresh")
             => /\ current_heading' = SeekStep(target_heading, current_heading)
                /\ cmds'[1].turn
                      = TurnCorrection(HeadingError(target_heading,
                                                    current_heading))]_vars

\* 180 degrees to turn: the eighth step is needed, and it ends on the target
C18_Witness ==
    /\ pc = "seek"
    /\ target_heading = 315
    /\ current_heading = Deg(135)
    /\ AfterSeeks(315, Deg(135), 7) = Deg(320)
    /\ AfterSeeks(315, Deg(135), 8) = Deg(315)

\* C19: when every read succeeds, the escape sequences started are never more
\* than the rises of the counter since the read before the first cycle, and a
\* cycle at whose first read the counter is what it was at the refresh read
\* before it seeks, the cycle after an escape cycle included.
C19_OneEscapePerRise ==
    /\ [](pc \in {"guard", "poll", "backup", "turn", "forward", "seek",
                  "refresh", "sleep", "stop", "final", "done"}
             => escapes_started <= sim_count - baseline_count)
    /\ [][(pc = "poll" /\ pc' # pc /\ sim_count = last_collision_count)
             => (pc' = "seek" /\ escapes_started' = escapes_started)]_vars
    /\ [][escapes_started' # escapes_started
             => (pc = "poll" /\ pc' = "backup"
                             /\ escapes_started' = escapes_started + 1)]_vars

\* one rise, one escape, and the cycle after the escape cycle seeks
C19_Witness ==
    /\ pc = "seek"
    /\ escapes_started = 1
    /\ baseline_count = 0
    /\ sim_count = 1
    /\ Elapsed = 4 * ReadLatency + 15

=============================================================================
